---- MODULE Spec2Model ----
(***************************************************************************)
(* Model of scripts/create-pack-xlsx.py: the command-line run main(), the  *)
(* orchestrator create_pack_workbook() and the three per-sheet helpers     *)
(* copy_sheet_content(), get_print_area() and apply_page_setup().          *)
(*                                                                         *)
(* Python dicts and attribute records are functions from key strings to    *)
(* values; an absent key (or an attribute that is None) is a key outside   *)
(* the DOMAIN.  A worksheet is a record; a workbook is the sequence of its *)
(* sheets in tab order.  Cell values are strings: "None" is the empty      *)
(* cell, "42" the number 42 and "=A1*2" a formula text.                     *)
(***************************************************************************)
EXTENDS Integers, Sequences, FiniteSets, TLC

VARIABLES
    source_file,           \* what is on disk at source_path
    config_file,           \* what is on disk at config_path
    pc,                    \* position of the run inside main()
    config,                \* the dict returned by load_pack_config
    source_wb,             \* sheets of the loaded source workbook
    pack_sheets,           \* config["pack_sheets"] sorted by order
    dest_wb,               \* sheets of the workbook under construction
    i,                     \* enumerate() index of the next sheet spec
    sheets_copied,
    sheets_missing,
    total_expected_pages,
    disk,                  \* what is on disk at output_path
    saves,                 \* calls of dest_wb.save made so far
    result,                \* dict returned by create_pack_workbook
    exit_code              \* process exit status, -1 while running

vars == <<source_file, config_file, pc, config, source_wb, pack_sheets,
          dest_wb, i, sheets_copied, sheets_missing, total_expected_pages,
          disk, saves, result, exit_code>>

-----------------------------------------------------------------------------
(* Bounds of the input space.                                              *)

MaxSpecs == 2      \* longest pack_sheets array
MaxMerges == 2     \* merged ranges of a sheet whose cell content varies
MaxFilled == 2     \* non-empty cells of a sheet whose cell content varies

-----------------------------------------------------------------------------
(* Python dict / attribute helpers.                                        *)

EmptyDict == <<>>

Get(d, k, default) == IF k \in DOMAIN d THEN d[k] ELSE default

SetAttr(d, k, v) == [x \in DOMAIN d \cup {k} |-> IF x = k THEN v ELSE d[x]]

DelAttr(d, k) == [x \in DOMAIN d \ {k} |-> d[x]]

\* dst.k = src.k, where an attribute that is None is an absent key
CopyAttr(dst, src, k) ==
    IF k \in DOMAIN src THEN SetAttr(dst, k, src[k]) ELSE DelAttr(dst, k)

Truthy(d) == DOMAIN d # {}

IsIn(x, seq) == \E k \in 1..Len(seq) : seq[k] = x

Range(seq) == {seq[k] : k \in 1..Len(seq)}

-----------------------------------------------------------------------------
(* Default print boundaries (module-level tables).                         *)

DEFAULT_PRINT_COLUMNS ==
    [ n \in {"Investment Summary", "Returns Summary", "Error Check",
             "Model Outputs", "Annual CF", "Assumptions", "Rent Roll",
             "Renovation Budget", "Monthly CF"} |->
        CASE n = "Investment Summary" -> "M"
          [] n = "Returns Summary"    -> "G"
          [] n = "Error Check"        -> "F"
          [] n = "Model Outputs"      -> "H"
          [] n = "Annual CF"          -> "N"
          [] n = "Assumptions"        -> "F"
          [] n = "Rent Roll"          -> "L"
          [] n = "Renovation Budget"  -> "E"
          [] n = "Monthly CF"         -> "BM" ]

DEFAULT_PRINT_ROWS ==
    [ n \in {"Investment Summary", "Returns Summary", "Error Check",
             "Model Outputs", "Annual CF", "Assumptions", "Rent Roll",
             "Renovation Budget", "Monthly CF"} |->
        CASE n = "Investment Summary" -> 50
          [] n = "Returns Summary"    -> 40
          [] n = "Error Check"        -> 30
          [] n = "Model Outputs"      -> 60
          [] n = "Annual CF"          -> 45
          [] n = "Assumptions"        -> 80
          [] n = "Rent Roll"          -> 50
          [] n = "Renovation Budget"  -> 40
          [] n = "Monthly CF"         -> 60 ]

DefaultMaxCol == "Z"
DefaultMaxRow == 100
DefaultOrder == 999
DefaultExpectedPages == 1
DefaultOrientation == "portrait"
DefaultPageTolerance == 2

\* title of the one sheet a new Workbook() starts with
DefaultTitle == "Sheet"

-----------------------------------------------------------------------------
(* Worksheets.                                                             *)

\* style of a cell that reports has_style = False
DefaultStyle ==
    [font |-> "default", border |-> "default", fill |-> "default",
     number_format |-> "General", alignment |-> "default",
     protection |-> "default"]

\* PageMargins(left, right, top, bottom, header, footer), in 1/100 inch
PageMargins(left, right, top, bottom, header, footer) ==
    [left |-> left, right |-> right, top |-> top, bottom |-> bottom,
     header |-> header, footer |-> footer]

\* a sheet as Workbook() / create_sheet() makes it: no cells, no merges,
\* no print area, every page-setup attribute None, library margins
NewSheet(title) ==
    [title |-> title, cells |-> <<>>, merged_cells |-> {},
     print_area |-> "", page_setup |-> EmptyDict,
     page_margins |-> PageMargins(75, 75, 100, 100, 50, 50),
     column_dimensions |-> <<>>, row_dimensions |-> <<>>]

ColumnLetters == <<"A", "B", "C", "D">>

\* str(merged_range): the A1-style coordinate of a range
RangeStr(r) ==
    ColumnLetters[r.c1] \o ToString(r.r1) \o ":" \o
    ColumnLetters[r.c2] \o ToString(r.r2)

CellsOf(r) == (r.r1 .. r.r2) \X (r.c1 .. r.c2)

Anchor(r) == <<r.r1, r.c1>>

\* dest_sheet.merge_cells(str(merged_range)): the range is recorded and
\* every cell of it but the top-left one becomes a MergedCell
merge_cells(sheet, r) ==
    LET sub == CellsOf(r) \ {Anchor(r)}
    IN  [sheet EXCEPT
            !.merged_cells = @ \cup {RangeStr(r)},
            !.cells = [a \in DOMAIN sheet.cells \cup sub |->
                         IF a \in sub
                         THEN [kind |-> "MergedCell", value |-> "None",
                               style |-> DefaultStyle]
                         ELSE sheet.cells[a]]]

RECURSIVE MergeAll(_, _)
MergeAll(sheet, ranges) ==
    IF ranges = {} THEN sheet
    ELSE LET r == CHOOSE x \in ranges : TRUE
         IN  MergeAll(merge_cells(sheet, r), ranges \ {r})

has_style(cell) == cell.style # DefaultStyle

\* the body of the cell loop for one source cell that is not a MergedCell
CopiedCell(cell) ==
    [kind |-> "Cell", value |-> cell.value,
     style |-> IF has_style(cell)
               THEN [font |-> cell.style.font, border |-> cell.style.border,
                     fill |-> cell.style.fill,
                     number_format |-> cell.style.number_format,
                     alignment |-> cell.style.alignment,
                     protection |-> cell.style.protection]
               ELSE DefaultStyle]

\* the cells the loop over iter_rows() writes: every source cell that is
\* not a MergedCell
Written(source_sheet) ==
    {a \in DOMAIN source_sheet.cells :
        source_sheet.cells[a].kind # "MergedCell"}

CopyDims(dst, src) ==
    [k \in DOMAIN dst \cup DOMAIN src |->
        IF k \in DOMAIN src THEN src[k] ELSE dst[k]]

\* copy_sheet_content without its first loop: merges are not recreated
copy_sheet_content_no_merges(source_sheet, dest_sheet) ==
    LET written == Written(source_sheet)
    IN  [dest_sheet EXCEPT
            !.cells = [a \in DOMAIN dest_sheet.cells \cup written |->
                         IF a \in written
                         THEN CopiedCell(source_sheet.cells[a])
                         ELSE dest_sheet.cells[a]],
            !.column_dimensions =
                CopyDims(@, source_sheet.column_dimensions),
            !.row_dimensions =
                CopyDims(@, source_sheet.row_dimensions)]

copy_sheet_content(source_sheet, dest_sheet) ==
    LET merged  == MergeAll(dest_sheet, source_sheet.merged_cells)
        written == Written(source_sheet)
    IN  [merged EXCEPT
            !.cells = [a \in DOMAIN merged.cells \cup written |->
                         IF a \in written
                         THEN CopiedCell(source_sheet.cells[a])
                         ELSE merged.cells[a]],
            !.column_dimensions =
                CopyDims(@, source_sheet.column_dimensions),
            !.row_dimensions =
                CopyDims(@, source_sheet.row_dimensions)]

\* get_print_area with the name's table entry taking precedence over the
\* sheet's own print area
get_print_area_table_first(sheet, sheet_name) ==
    IF sheet_name \in DOMAIN DEFAULT_PRINT_COLUMNS \/ sheet.print_area = ""
    THEN LET max_col == Get(DEFAULT_PRINT_COLUMNS, sheet_name, DefaultMaxCol)
             max_row == Get(DEFAULT_PRINT_ROWS, sheet_name, DefaultMaxRow)
         IN  "A1:" \o max_col \o ToString(max_row)
    ELSE sheet.print_area

get_print_area(sheet, sheet_name) ==
    IF sheet.print_area # ""
    THEN sheet.print_area
    ELSE LET max_col == Get(DEFAULT_PRINT_COLUMNS, sheet_name, DefaultMaxCol)
             max_row == Get(DEFAULT_PRINT_ROWS, sheet_name, DefaultMaxRow)
         IN  "A1:" \o max_col \o ToString(max_row)

\* apply_page_setup copying the orientation along with the other source
\* attributes and applying the config value only without a source setup
apply_page_setup_source_orientation(dest_sheet, config_sheet, source_sheet) ==
    LET orientation == Get(config_sheet, "orientation", DefaultOrientation)
        src == source_sheet.page_setup
        ps0 == dest_sheet.page_setup
        ps1 == IF Truthy(src)
               THEN CopyAttr(CopyAttr(CopyAttr(CopyAttr(CopyAttr(CopyAttr(ps0,
                        src, "paperSize"), src, "scale"), src, "fitToPage"),
                        src, "fitToWidth"), src, "fitToHeight"),
                        src, "orientation")
               ELSE SetAttr(SetAttr(SetAttr(SetAttr(ps0,
                        "fitToPage", TRUE), "fitToWidth", 1),
                        "fitToHeight", 0), "orientation", orientation)
    IN  [dest_sheet EXCEPT
            !.page_setup = ps1,
            !.page_margins = PageMargins(50, 50, 50, 50, 30, 30)]

apply_page_setup(dest_sheet, config_sheet, source_sheet) ==
    LET orientation == Get(config_sheet, "orientation", DefaultOrientation)
        src == source_sheet.page_setup
        ps0 == dest_sheet.page_setup
        ps1 == IF Truthy(src)
               THEN CopyAttr(CopyAttr(CopyAttr(CopyAttr(CopyAttr(ps0,
                        src, "paperSize"), src, "scale"), src, "fitToPage"),
                        src, "fitToWidth"), src, "fitToHeight")
               ELSE SetAttr(SetAttr(SetAttr(ps0,
                        "fitToPage", TRUE), "fitToWidth", 1),
                        "fitToHeight", 0)
    IN  [dest_sheet EXCEPT
            !.page_setup = SetAttr(ps1, "orientation", orientation),
            !.page_margins = PageMargins(50, 50, 50, 50, 30, 30)]

-----------------------------------------------------------------------------
(* Workbooks.                                                              *)

sheetnames(wb) == [k \in 1..Len(wb) |-> wb[k].title]

SheetNamed(wb, name) == wb[CHOOSE k \in 1..Len(wb) : wb[k].title = name]

\* openpyxl's avoid_duplicate_name: a title already in use gets the next
\* free number appended
avoid_duplicate_name(names, value) ==
    IF ~IsIn(value, names) THEN value
    ELSE LET used == {k \in 1..Len(names) :
                         IsIn(value \o ToString(k), names)}
             highest == IF used = {} THEN 0
                        ELSE CHOOSE k \in used : \A j \in used : j <= k
         IN  value \o ToString(highest + 1)

create_sheet(wb, title) ==
    Append(wb, NewSheet(avoid_duplicate_name(sheetnames(wb), title)))

\* default_sheet.title = sheet_name, default_sheet being the first sheet
set_title(wb, value) ==
    [wb EXCEPT ![1].title =
        IF @ # value THEN avoid_duplicate_name(sheetnames(wb), value)
        ELSE value]

-----------------------------------------------------------------------------
(* sorted(config.get("pack_sheets", []), key=order): a stable sort.        *)

OrderKey(x) == Get(x, "order", DefaultOrder)

\* x goes behind every element whose key is not greater than its own
InsertByOrder(s, x) ==
    LET n == Cardinality({k \in 1..Len(s) : OrderKey(s[k]) <= OrderKey(x)})
    IN  SubSeq(s, 1, n) \o <<x>> \o SubSeq(s, n + 1, Len(s))

RECURSIVE SortedByOrder(_)
SortedByOrder(s) ==
    IF s = <<>> THEN <<>>
    ELSE InsertByOrder(SortedByOrder(SubSeq(s, 1, Len(s) - 1)), s[Len(s)])

-----------------------------------------------------------------------------
(* The inputs of a run: the config file and the source workbook file.      *)

BoldStyle == [DefaultStyle EXCEPT !.font = "bold", !.number_format = "0.00"]

EmptyCell   == [kind |-> "Cell", value |-> "None", style |-> DefaultStyle]
NumberCell  == [kind |-> "Cell", value |-> "42", style |-> DefaultStyle]
FormulaCell == [kind |-> "Cell", value |-> "=A1*2", style |-> BoldStyle]
MergedCell  == [kind |-> "MergedCell", value |-> "None", style |-> DefaultStyle]

CellOptions == {EmptyCell, NumberCell, FormulaCell}

PortraitSetup == [orientation |-> "portrait", paperSize |-> 9, scale |-> 90]

LandscapeSetup ==
    [orientation |-> "landscape", paperSize |-> 1, fitToPage |-> TRUE,
     fitToWidth |-> 1, fitToHeight |-> 2]

PageSetups == {EmptyDict, PortraitSetup, LandscapeSetup}

PrintAreas == {"", "A1:K30"}

SourceSheet(title, print_area, page_setup, cells, merged) ==
    [title |-> title, cells |-> cells, merged_cells |-> merged,
     print_area |-> print_area, page_setup |-> page_setup,
     column_dimensions |-> ("A" :> [width |-> 12, hidden |-> FALSE]),
     row_dimensions |-> (1 :> [height |-> 15, hidden |-> TRUE])]

\* the sheet {A1: 42, B1: "=A1*2"}
SampleCells == (<<1, 1>> :> NumberCell) @@ (<<1, 2>> :> FormulaCell)

TableNames == DOMAIN DEFAULT_PRINT_COLUMNS

AllNames == TableNames \cup {"Unknown Sheet"}

PackNames == <<"Unknown Sheet", "Rent Roll", "Annual CF">>

\* a sheet of the source that no config lists
CoverSheet == SourceSheet("Cover", "", EmptyDict, SampleCells, {})

PackSheet(name) ==
    CASE name = "Annual CF" ->
            SourceSheet(name, "", EmptyDict, SampleCells, {})
      [] name = "Rent Roll" ->
            SourceSheet(name, "A1:K30", LandscapeSetup, SampleCells, {})
      [] OTHER ->
            SourceSheet(name, "", PortraitSetup, SampleCells, {})

Optional(key, values) == {EmptyDict} \cup {key :> v : v \in values}

SheetSpecs(names, orders, pages, orientations) ==
    {n @@ o @@ p @@ q :
        n \in names, o \in Optional("order", orders),
        p \in Optional("expected_pages", pages),
        q \in Optional("orientation", orientations)}

SeqsUpTo(S, n) == UNION {[1..k -> S] : k \in 0..n}

JsonFile(data) == [kind |-> "json", data |-> data]

WorkbookFile(sheets) == [kind |-> "workbook", sheets |-> sheets]

Run(config_data, sheets) ==
    [config_file |-> JsonFile(config_data),
     source_file |-> WorkbookFile(sheets)]

\* pack_sheets arrays of up to MaxSpecs specs against every selection of
\* the configured sheets in the source
PackRuns ==
    LET names == {"name" :> n : n \in Range(PackNames)}
        specs == SheetSpecs(names, {1, 2}, {}, {})
                     \cup SheetSpecs(names, {}, {3, 4}, {})
        Present(S) == LET In(x) == x \in S IN SelectSeq(PackNames, In)
    IN  {Run("pack_sheets" :> ps,
             <<CoverSheet>> \o [k \in 1..Len(Present(S)) |->
                                   PackSheet(Present(S)[k])]) :
            ps \in SeqsUpTo(specs, MaxSpecs), S \in SUBSET Range(PackNames)}

\* one configured sheet, every name, print area, page setup, orientation
LayoutRuns ==
    {Run("pack_sheets" :> <<("name" :> name) @@ q>>,
         <<CoverSheet, SourceSheet(name, pa, ps, SampleCells, {})>>) :
        name \in AllNames, pa \in PrintAreas, ps \in PageSetups,
        q \in Optional("orientation", {"portrait", "landscape"})}

\* the cells A1..C2 of a sheet whose cell content varies
Grid == (1..2) \X (1..3)

Rects ==
    {r \in [r1 : 1..2, c1 : 1..3, r2 : 1..2, c2 : 1..3] :
        r.r1 <= r.r2 /\ r.c1 <= r.c2 /\ Cardinality(CellsOf(r)) > 1}

RECURSIVE MergeSets(_)
MergeSets(n) ==
    IF n = 0 THEN {{}}
    ELSE LET P == MergeSets(n - 1)
             Free(M) == {x \in Rects : \A y \in M :
                            CellsOf(x) \cap CellsOf(y) = {}}
         IN  P \cup UNION {{M \cup {r} : r \in Free(M)} : M \in P}

Subordinate(M) == UNION {CellsOf(r) \ {Anchor(r)} : r \in M}

\* one configured sheet, every cell content and merge layout of the grid;
\* as in a loaded workbook, the non-anchor cells of a merge are MergedCells
ContentRuns ==
    {Run("pack_sheets" :> <<[name |-> "Rent Roll"]>>,
         <<SourceSheet("Rent Roll", "", EmptyDict,
                       [a \in Grid |-> IF a \in Subordinate(M)
                                       THEN MergedCell ELSE f[a]], M)>>) :
        M \in MergeSets(MaxMerges),
        f \in {g \in [Grid -> CellOptions] :
                  Cardinality({a \in Grid : g[a] # EmptyCell}) <= MaxFilled}}

\* specs that lack their name, at every position of pack_sheets
NamelessRuns ==
    {Run("pack_sheets" :> ps, <<CoverSheet, PackSheet("Annual CF")>>) :
        ps \in SeqsUpTo({[name |-> "Annual CF"], [order |-> 1],
                         [expected_pages |-> 3]}, MaxSpecs)}

\* files that are missing or unreadable, and configs without pack_sheets
FailureRuns ==
    {[config_file |-> c, source_file |-> s] :
        c \in {[kind |-> "missing"], [kind |-> "invalid"],
               JsonFile(EmptyDict), JsonFile("page_tolerance" :> 0),
               JsonFile("pack_sheets" :> <<[name |-> "Annual CF"]>>)},
        s \in {[kind |-> "missing"], [kind |-> "corrupt"],
               WorkbookFile(<<CoverSheet, PackSheet("Annual CF")>>)}}

Runs ==
    PackRuns \cup LayoutRuns \cup ContentRuns \cup NamelessRuns
        \cup FailureRuns

-----------------------------------------------------------------------------
(* The run.                                                                *)

Init ==
    \E run \in Runs :
        /\ source_file = run.source_file
        /\ config_file = run.config_file
        /\ pc = "validate"
        /\ config = EmptyDict
        /\ source_wb = <<>>
        /\ pack_sheets = <<>>
        /\ dest_wb = <<>>
        /\ i = 0
        /\ sheets_copied = <<>>
        /\ sheets_missing = <<>>
        /\ total_expected_pages = 0
        /\ disk = [kind |-> "none"]
        /\ saves = 0
        /\ result = EmptyDict
        /\ exit_code = -1

\* Path.exists()
exists(file) == file.kind # "missing"

\* sys.exit(status), or the interpreter ending on an uncaught exception
Exit(status) ==
    /\ pc' = "exit"
    /\ exit_code' = status

\* a loop that stops after its first spec
LoopDoneAfterFirst(k, specs) == k >= 1 \/ k >= Len(specs)

\* the for loop over enumerate(pack_sheets) has run out of specs
LoopDone(k, specs) == k >= Len(specs)

\* expected_pages defaulting to 0
ExpectedPagesZeroDefault(sheet_config) ==
    Get(sheet_config, "expected_pages", 0)

\* sheet_config.get("expected_pages", 1)
ExpectedPages(sheet_config) ==
    Get(sheet_config, "expected_pages", DefaultExpectedPages)

\* main(): source_path does not exist
SourceNotFound ==
    /\ pc = "validate"
    /\ ~exists(source_file)
    /\ Exit(1)
    /\ UNCHANGED <<source_file, config_file, config, source_wb, pack_sheets,
                   dest_wb, i, sheets_copied, sheets_missing,
                   total_expected_pages, disk, saves, result>>

\* main(): config_path does not exist
ConfigNotFound ==
    /\ pc = "validate"
    /\ exists(source_file)
    /\ ~exists(config_file)
    /\ Exit(1)
    /\ UNCHANGED <<source_file, config_file, config, source_wb, pack_sheets,
                   dest_wb, i, sheets_copied, sheets_missing,
                   total_expected_pages, disk, saves, result>>

\* main(): both files exist
InputsValid ==
    /\ pc = "validate"
    /\ exists(source_file)
    /\ exists(config_file)
    /\ pc' = "load_config"
    /\ UNCHANGED <<source_file, config_file, config, source_wb, pack_sheets,
                   dest_wb, i, sheets_copied, sheets_missing,
                   total_expected_pages, disk, saves, result, exit_code>>

\* load_pack_config(): the file holds JSON
LoadConfig ==
    /\ pc = "load_config"
    /\ config_file.kind = "json"
    /\ config' = config_file.data
    /\ pc' = "create_pack"
    /\ UNCHANGED <<source_file, config_file, source_wb, pack_sheets,
                   dest_wb, i, sheets_copied, sheets_missing,
                   total_expected_pages, disk, saves, result, exit_code>>

\* load_pack_config(): json.load raises outside main()'s try block; the
\* interpreter prints the traceback and ends with status 1
LoadConfigRaise ==
    /\ pc = "load_config"
    /\ config_file.kind # "json"
    /\ Exit(1)
    /\ UNCHANGED <<source_file, config_file, config, source_wb, pack_sheets,
                   dest_wb, i, sheets_copied, sheets_missing,
                   total_expected_pages, disk, saves, result>>

\* create_pack_workbook(), up to the loop: load the source, sort the
\* specs, make the destination workbook with its default sheet
OpenSource ==
    /\ pc = "create_pack"
    /\ source_file.kind = "workbook"
    /\ source_wb' = source_file.sheets
    /\ pack_sheets' = SortedByOrder(Get(config, "pack_sheets", <<>>))
    /\ dest_wb' = <<NewSheet(DefaultTitle)>>
    /\ i' = 0
    /\ sheets_copied' = <<>>
    /\ sheets_missing' = <<>>
    /\ total_expected_pages' = 0
    /\ pc' = "loop"
    /\ UNCHANGED <<source_file, config_file, config, disk, saves, result,
                   exit_code>>

\* an exception handler that reports success
OpenSourceRaiseExitZero ==
    /\ pc = "create_pack"
    /\ source_file.kind # "workbook"
    /\ Exit(0)
    /\ UNCHANGED <<source_file, config_file, config, source_wb, pack_sheets,
                   dest_wb, i, sheets_copied, sheets_missing,
                   total_expected_pages, disk, saves, result>>

\* load_workbook raises; main() catches it and exits 1
OpenSourceRaise ==
    /\ pc = "create_pack"
    /\ source_file.kind # "workbook"
    /\ Exit(1)
    /\ UNCHANGED <<source_file, config_file, config, source_wb, pack_sheets,
                   dest_wb, i, sheets_copied, sheets_missing,
                   total_expected_pages, disk, saves, result>>

\* loop body: sheet_config["name"] raises KeyError; main() catches it
SpecRaise ==
    /\ pc = "loop"
    /\ ~LoopDone(i, pack_sheets)
    /\ "name" \notin DOMAIN pack_sheets[i + 1]
    /\ Exit(1)
    /\ UNCHANGED <<source_file, config_file, config, source_wb, pack_sheets,
                   dest_wb, i, sheets_copied, sheets_missing,
                   total_expected_pages, disk, saves, result>>

\* a missing sheet that is skipped without being recorded
MissingStepUnrecorded ==
    /\ pc = "loop"
    /\ ~LoopDone(i, pack_sheets)
    /\ "name" \in DOMAIN pack_sheets[i + 1]
    /\ ~IsIn(pack_sheets[i + 1].name, sheetnames(source_wb))
    /\ i' = i + 1
    /\ UNCHANGED <<source_file, config_file, pc, config, source_wb,
                   pack_sheets, dest_wb, sheets_copied, sheets_missing,
                   total_expected_pages, disk, saves, result, exit_code>>

\* loop body: the sheet is not in the source
MissingStep ==
    /\ pc = "loop"
    /\ ~LoopDone(i, pack_sheets)
    /\ "name" \in DOMAIN pack_sheets[i + 1]
    /\ ~IsIn(pack_sheets[i + 1].name, sheetnames(source_wb))
    /\ sheets_missing' = Append(sheets_missing, pack_sheets[i + 1].name)
    /\ i' = i + 1
    /\ UNCHANGED <<source_file, config_file, pc, config, source_wb,
                   pack_sheets, dest_wb, sheets_copied,
                   total_expected_pages, disk, saves, result, exit_code>>

\* loop body: the sheet is in the source and is copied
CopyStep ==
    /\ pc = "loop"
    /\ ~LoopDone(i, pack_sheets)
    /\ "name" \in DOMAIN pack_sheets[i + 1]
    /\ IsIn(pack_sheets[i + 1].name, sheetnames(source_wb))
    /\ LET sheet_config == pack_sheets[i + 1]
           sheet_name == sheet_config.name
           expected_pages == ExpectedPages(sheet_config)
           source_sheet == SheetNamed(source_wb, sheet_name)
           wb == IF i = 0 THEN set_title(dest_wb, sheet_name)
                 ELSE create_sheet(dest_wb, sheet_name)
           k == IF i = 0 THEN 1 ELSE Len(wb)
           copied == copy_sheet_content(source_sheet, wb[k])
           area == [copied EXCEPT
                      !.print_area = get_print_area(source_sheet, sheet_name)]
       IN  /\ dest_wb' = [wb EXCEPT
                  ![k] = apply_page_setup(area, sheet_config, source_sheet)]
           /\ sheets_copied' = Append(sheets_copied, sheet_name)
           /\ total_expected_pages' = total_expected_pages + expected_pages
    /\ i' = i + 1
    /\ UNCHANGED <<source_file, config_file, pc, config, source_wb,
                   pack_sheets, sheets_missing, disk, saves, result,
                   exit_code>>

\* after the loop: dest_wb.save(output_path)
Save ==
    /\ pc = "loop"
    /\ LoopDone(i, pack_sheets)
    /\ disk' = [kind |-> "workbook", sheets |-> dest_wb]
    /\ saves' = saves + 1
    /\ pc' = "saved"
    /\ UNCHANGED <<source_file, config_file, config, source_wb, pack_sheets,
                   dest_wb, i, sheets_copied, sheets_missing,
                   total_expected_pages, result, exit_code>>

\* dest_wb.save raises (the path is not writable, the disk is full);
\* nothing or a partial file is left behind; main() catches it
SaveRaise ==
    /\ pc = "loop"
    /\ LoopDone(i, pack_sheets)
    /\ disk' \in {disk, [kind |-> "partial"]}
    /\ saves' = saves + 1
    /\ Exit(1)
    /\ UNCHANGED <<source_file, config_file, config, source_wb, pack_sheets,
                   dest_wb, i, sheets_copied, sheets_missing,
                   total_expected_pages, result>>

\* create_pack_workbook() returns its result and main() exits on it
Return ==
    /\ pc = "saved"
    /\ result' = [success |-> TRUE,
                  source |-> "source_path",
                  output |-> "output_path",
                  sheets_copied |-> sheets_copied,
                  sheets_missing |-> sheets_missing,
                  expected_pages |-> total_expected_pages,
                  page_tolerance |->
                      Get(config, "page_tolerance", DefaultPageTolerance)]
    /\ Exit(IF result'.success THEN 0 ELSE 1)
    /\ UNCHANGED <<source_file, config_file, config, source_wb, pack_sheets,
                   dest_wb, i, sheets_copied, sheets_missing,
                   total_expected_pages, disk, saves>>

Next ==
    \/ SourceNotFound
    \/ ConfigNotFound
    \/ InputsValid
    \/ LoadConfig
    \/ LoadConfigRaise
    \/ OpenSource
    \/ OpenSourceRaise
    \/ SpecRaise
    \/ MissingStep
    \/ CopyStep
    \/ Save
    \/ SaveRaise
    \/ Return

Spec == Init /\ [][Next]_vars

-----------------------------------------------------------------------------
(* Vocabulary of the properties.                                           *)

Saved == disk.kind = "workbook"

Returned == Truthy(result)

\* the pack_sheets array as the config file gives it
ConfigSpecs == Get(config, "pack_sheets", <<>>)

ConfiguredNames ==
    {ConfigSpecs[k].name : k \in {j \in 1..Len(ConfigSpecs) :
                                     "name" \in DOMAIN ConfigSpecs[j]}}

SourceNames ==
    IF source_file.kind = "workbook"
    THEN Range(sheetnames(source_file.sheets)) ELSE {}

\* the specs processed so far whose sheet is in the source, in loop order
CopiedSpecs ==
    LET Found(x) == "name" \in DOMAIN x /\ x.name \in SourceNames
    IN  SelectSeq(SubSeq(pack_sheets, 1, i), Found)

\* the destination sheet made for the j-th copied spec: sheets are only
\* ever appended, so the copies are the last sheets of the workbook
DestSheetOf(j) == dest_wb[Len(dest_wb) - Len(sheets_copied) + j]

SourceSheetOf(j) == SheetNamed(source_file.sheets, CopiedSpecs[j].name)

Copies == 1..Len(sheets_copied)

-----------------------------------------------------------------------------
(* C1: when the destination is persisted, a sheet exists in it if and only *)
(* if its name is listed in pack_sheets and is a sheet name of the source: *)
(* no sheet under any other name (a default-named sheet included), and no  *)
(* matched name lacking.                                                   *)
C1_SheetsExactlyMatched ==
    Saved =>
        Range(sheetnames(disk.sheets)) = ConfiguredNames \cap SourceNames

(* C2: the k-th sheet of the persisted destination is the sheet of the     *)
(* k-th copied spec, the copied specs taken ascending by order (999 when   *)
(* absent) with equal orders in pack_sheets array order, whichever         *)
(* configured sheets are missing from the source.  A sheet made for a name *)
(* already in use carries that name with a number appended.                *)
TitleFor(name, title) ==
    \/ title = name
    \/ \E n \in 1..(MaxSpecs + 1) : title = name \o ToString(n)

CopiedInConfigOrder ==
    LET Found(x) == "name" \in DOMAIN x /\ x.name \in SourceNames
    IN  SelectSeq(SortedByOrder(ConfigSpecs), Found)

C2_DestinationOrder ==
    Saved =>
        \A k \in 1..Len(CopiedInConfigOrder) :
            /\ k <= Len(disk.sheets)
            /\ TitleFor(CopiedInConfigOrder[k].name, disk.sheets[k].title)

(* C10: whenever pack_sheets is non-empty and at least one configured      *)
(* sheet is found in the source, no sheet of the persisted destination     *)
(* still carries the default name, also when the spec at sorted index 0 is *)
(* missing and a later spec is the first one copied.                       *)
C10_DefaultSheetConsumed ==
    (Saved /\ pack_sheets # <<>> /\ sheets_copied # <<>>) =>
        ~IsIn(DefaultTitle, sheetnames(disk.sheets))

-----------------------------------------------------------------------------
(* C3: in the returned Result, sheets_copied and sheets_missing partition  *)
(* the configured names: their union is the set of names in pack_sheets,   *)
(* they share no name, sheets_copied holds exactly the configured names    *)
(* present in the source and sheets_missing exactly those absent from it.  *)
C3_ResultPartition ==
    Returned =>
        LET copied  == Range(result.sheets_copied)
            missing == Range(result.sheets_missing)
        IN  /\ copied \cup missing = ConfiguredNames
            /\ copied \cap missing = {}
            /\ copied = ConfiguredNames \cap SourceNames
            /\ missing = ConfiguredNames \ SourceNames

C3_Witness ==
    /\ Returned
    /\ result.sheets_copied # <<>>
    /\ result.sheets_missing # <<>>

(* C4: Result.expected_pages is the sum of the configured expected_pages   *)
(* (1 when the key is absent) over exactly the specs whose sheet was       *)
(* copied; missing specs add nothing, so with no copy the total is 0.      *)
RECURSIVE PagesOfFound(_)
PagesOfFound(specs) ==
    IF specs = <<>> THEN 0
    ELSE LET x == Head(specs)
             pages == IF "expected_pages" \in DOMAIN x
                      THEN x.expected_pages ELSE 1
         IN  (IF x.name \in SourceNames THEN pages ELSE 0)
                 + PagesOfFound(Tail(specs))

C4_ExpectedPagesSum ==
    Returned =>
        /\ result.expected_pages = PagesOfFound(ConfigSpecs)
        /\ (result.sheets_copied = <<>> => result.expected_pages = 0)

\* two copied sheets with expected_pages 3 and 4 give 7
C4_Witness ==
    /\ Returned
    /\ Len(result.sheets_copied) = 2
    /\ result.sheets_missing = <<>>
    /\ result.expected_pages = 7

C4_WitnessDefault ==
    /\ Returned
    /\ Len(result.sheets_copied) = 1
    /\ Len(result.sheets_missing) = 1
    /\ result.expected_pages = 1

NamelessSpec ==
    \E k \in 1..Len(ConfigSpecs) : "name" \notin DOMAIN ConfigSpecs[k]

C6_ExitCodes ==
    /\ exit_code \in {-1, 0, 1}
    /\ (pc = "exit") = (exit_code # -1)
    /\ (exit_code = 0 =>
           /\ Returned /\ Saved /\ saves = 1
           /\ i = Len(pack_sheets)
           /\ source_file.kind = "workbook" /\ config_file.kind = "json")
    /\ (pc = "exit" /\ ( \/ source_file.kind # "workbook"
                         \/ config_file.kind # "json"
                         \/ NamelessSpec
                         \/ ~Saved ) => exit_code = 1)
    /\ (~exists(source_file) \/ ~exists(config_file) =>
           /\ source_wb = <<>> /\ dest_wb = <<>>
           /\ disk.kind = "none" /\ saves = 0)

C6_WitnessSuccess == pc = "exit" /\ exit_code = 0 /\ sheets_copied # <<>>

C6_WitnessInvalidJson ==
    pc = "exit" /\ exit_code = 1 /\ config_file.kind = "invalid"

C6_WitnessSaveRaised ==
    pc = "exit" /\ exit_code = 1 /\ saves = 1 /\ disk.kind = "partial"

C6_Witness ==
    pc = "exit" /\ exit_code = 1 /\ ~exists(config_file) /\ exists(source_file)

-----------------------------------------------------------------------------
(* C7: the print area of every copied destination sheet is the source      *)
(* sheet's own print area, unchanged, when the source declares one         *)
(* (whatever the sheet's name); otherwise A1:{col}{row} from the two       *)
(* default tables for that exact name; and A1:Z100 for a name in neither.  *)
TableArea(name) ==
    CASE name = "Investment Summary" -> "A1:M50"
      [] name = "Returns Summary"    -> "A1:G40"
      [] name = "Error Check"        -> "A1:F30"
      [] name = "Model Outputs"      -> "A1:H60"
      [] name = "Annual CF"          -> "A1:N45"
      [] name = "Assumptions"        -> "A1:F80"
      [] name = "Rent Roll"          -> "A1:L50"
      [] name = "Renovation Budget"  -> "A1:E40"
      [] name = "Monthly CF"         -> "A1:BM60"
      [] OTHER                       -> "A1:Z100"

C7_PrintArea ==
    \A j \in Copies :
        LET declared == SourceSheetOf(j).print_area
        IN  DestSheetOf(j).print_area =
                IF declared # "" THEN declared
                ELSE TableArea(CopiedSpecs[j].name)

\* "Annual CF" without a print area of its own gets A1:N45
C7_Witness ==
    \E j \in Copies :
        /\ CopiedSpecs[j].name = "Annual CF"
        /\ SourceSheetOf(j).print_area = ""
        /\ DestSheetOf(j).print_area = "A1:N45"

C7_WitnessDeclared ==
    \E j \in Copies :
        /\ CopiedSpecs[j].name = "Monthly CF"
        /\ SourceSheetOf(j).print_area = "A1:K30"
        /\ DestSheetOf(j).print_area = "A1:K30"

C7_WitnessFallback ==
    \E j \in Copies :
        /\ CopiedSpecs[j].name = "Unknown Sheet"
        /\ DestSheetOf(j).print_area = "A1:Z100"

(* C8: the orientation of every copied destination sheet is the value of   *)
(* its config entry ("portrait" when the entry has none), also when the    *)
(* source sheet's own page setup is non-empty and gives the opposite       *)
(* orientation.                                                            *)
C8_OrientationFromConfig ==
    \A j \in Copies :
        /\ "orientation" \in DOMAIN DestSheetOf(j).page_setup
        /\ DestSheetOf(j).page_setup.orientation =
               IF "orientation" \in DOMAIN CopiedSpecs[j]
               THEN CopiedSpecs[j].orientation ELSE "portrait"

\* the source says landscape, the config entry says nothing
C8_Witness ==
    \E j \in Copies :
        /\ "orientation" \notin DOMAIN CopiedSpecs[j]
        /\ "orientation" \in DOMAIN SourceSheetOf(j).page_setup
        /\ SourceSheetOf(j).page_setup.orientation = "landscape"
        /\ DestSheetOf(j).page_setup.orientation = "portrait"

C8_WitnessOpposite ==
    \E j \in Copies :
        /\ "orientation" \in DOMAIN CopiedSpecs[j]
        /\ CopiedSpecs[j].orientation = "landscape"
        /\ "orientation" \in DOMAIN SourceSheetOf(j).page_setup
        /\ SourceSheetOf(j).page_setup.orientation = "portrait"
        /\ DestSheetOf(j).page_setup.orientation = "landscape"

(* C9: every copied destination sheet has exactly the merged ranges of its *)
(* source sheet; every source cell that is not a subordinate cell of a     *)
(* merge has its raw value (formula text included) at the same address in  *)
(* the destination; within each merged range only the top-left anchor can  *)
(* carry a value, the subordinate cells are never written.                 *)
C9_ContentCopied ==
    \A j \in Copies :
        LET src == SourceSheetOf(j)
            dst == DestSheetOf(j)
            sub == UNION {CellsOf(r) \ {Anchor(r)} : r \in src.merged_cells}
        IN  /\ dst.merged_cells = {RangeStr(r) : r \in src.merged_cells}
            /\ \A a \in DOMAIN src.cells \ sub :
                  /\ a \in DOMAIN dst.cells
                  /\ dst.cells[a].kind = "Cell"
                  /\ dst.cells[a].value = src.cells[a].value
            /\ \A a \in sub :
                  /\ a \in DOMAIN dst.cells
                  /\ dst.cells[a].kind = "MergedCell"
                  /\ dst.cells[a].value = "None"
            /\ DOMAIN dst.cells = DOMAIN src.cells

\* A1:B2 merged around the number 42, a formula text next to it in C1
C9_Witness ==
    \E j \in Copies :
        LET dst == DestSheetOf(j)
        IN  /\ dst.merged_cells = {"A1:B2"}
            /\ dst.cells[<<1, 1>>].value = "42"
            /\ dst.cells[<<1, 3>>].value = "=A1*2"
            /\ \A a \in {<<1, 2>>, <<2, 1>>, <<2, 2>>} :
                  dst.cells[a].kind = "MergedCell"

====
